---------------------------- MODULE Spec2Model ----------------------------
(***************************************************************************)
(* rust-crate-diffs: the version-requirement range model                   *)
(* (src/domain/semver/mod.rs), its partial-order comparison, the change    *)
(* classifier, and the dependency-set diff built on them                   *)
(* (src/domain/cargo_toml/mod.rs).                                         *)
(*                                                                         *)
(* Encodings.  Option<T>: None is <<>>, Some(x) is <<x>>.                  *)
(* semver::Version (prerelease and build metadata always EMPTY here) is    *)
(* the triple <<major, minor, patch>>, ordered lexicographically.          *)
(* Range<semver::Version> is the record [start, end].  A panic is the      *)
(* value Panic where a version was expected; it unwinds through every      *)
(* caller.  A semver::Comparator is [op, major, minor, patch, pre].        *)
(***************************************************************************)
EXTENDS Integers, Sequences, FiniteSets, TLC

\* u64::MAX, scaled to the width the model works in.
U64_MAX == 9
\* Largest ordinary component value the enumerated comparators carry
\* (U64_MAX is enumerated beside them where overflow matters).
MaxComponent == 1

None == <<>>
Some(x) == <<x>>
Panic == <<>>

Ops == {"Exact", "Greater", "GreaterEq", "Less", "LessEq", "Tilde", "Caret", "Wildcard"}

(***************************************************************************)
(* semver::Version and its derived Ord                                     *)
(***************************************************************************)
NewVersion(major, minor, patch) == <<major, minor, patch>>

VersionLt(a, b) ==
    \/ a[1] < b[1]
    \/ a[1] = b[1] /\ a[2] < b[2]
    \/ a[1] = b[1] /\ a[2] = b[2] /\ a[3] < b[3]

VersionLe(a, b) == a = b \/ VersionLt(a, b)

VersionMin == NewVersion(0, 0, 0)
VersionMax == NewVersion(U64_MAX, U64_MAX, U64_MAX)

Range(start, end) == [start |-> start, end |-> end]
Panicked(range) == range.start = Panic \/ range.end = Panic

(***************************************************************************)
(* Version::range_compare                                                  *)
(***************************************************************************)
range_compare_swapped(a, b) ==
    IF a = b
    THEN Some("Equal")
    ELSE IF \/ VersionLe(a.end, b.start)
            \/ (VersionLt(a.start, b.start) /\ a.end = b.end)
            \/ (a.start = b.start /\ VersionLt(a.end, b.end))
    THEN Some("Greater")
    ELSE IF \/ VersionLe(b.end, a.start)
            \/ (VersionLt(b.start, a.start) /\ a.end = b.end)
            \/ (a.start = b.start /\ VersionLt(b.end, a.end))
    THEN Some("Less")
    ELSE None

range_compare(a, b) ==
    IF a = b
    THEN Some("Equal")
    ELSE IF \/ VersionLe(a.end, b.start)
            \/ (VersionLt(a.start, b.start) /\ a.end = b.end)
            \/ (a.start = b.start /\ VersionLt(a.end, b.end))
    THEN Some("Less")
    ELSE IF \/ VersionLe(b.end, a.start)
            \/ (VersionLt(b.start, a.start) /\ a.end = b.end)
            \/ (a.start = b.start /\ VersionLt(b.end, a.end))
    THEN Some("Greater")
    ELSE None

(***************************************************************************)
(* The bumps: checked_add(1), panicking on overflow                        *)
(***************************************************************************)
version_with_bumped_major(major) ==
    IF major < U64_MAX THEN <<major + 1, 0, 0>> ELSE Panic

version_with_bumped_minor(major, minor) ==
    IF minor < U64_MAX THEN <<major, minor + 1, 0>> ELSE Panic

version_with_bumped_patch_wrapping(major, minor, patch) ==
    <<major, minor, (patch + 1) % (U64_MAX + 1)>>

version_with_bumped_patch(major, minor, patch) ==
    IF patch < U64_MAX THEN <<major, minor, patch + 1>> ELSE Panic

(***************************************************************************)
(* One comparator's range, per operator                                    *)
(***************************************************************************)
caret_range_always_major(major, minor, patch) ==
    Range(NewVersion(major,
                     IF minor = None THEN 0 ELSE minor[1],
                     IF patch = None THEN 0 ELSE patch[1]),
          version_with_bumped_major(major))

caret_range(major, minor, patch) ==
    IF major = 0
    THEN IF minor # None /\ minor[1] = 0
         THEN IF patch # None
              THEN Range(NewVersion(major, minor[1], patch[1]),
                         version_with_bumped_patch(major, minor[1], patch[1]))
              ELSE Range(NewVersion(major, minor[1], 0),
                         version_with_bumped_minor(major, minor[1]))
         ELSE IF minor # None
         THEN IF patch # None
              THEN Range(NewVersion(major, minor[1], patch[1]),
                         version_with_bumped_minor(major, minor[1]))
              ELSE Range(NewVersion(major, minor[1], 0),
                         version_with_bumped_minor(major, minor[1]))
         ELSE Range(NewVersion(0, 0, 0), NewVersion(1, 0, 0))
    ELSE IF minor # None
         THEN IF patch # None
              THEN Range(NewVersion(major, minor[1], patch[1]),
                         version_with_bumped_major(major))
              ELSE Range(NewVersion(major, minor[1], 0),
                         version_with_bumped_major(major))
         ELSE Range(NewVersion(major, 0, 0), version_with_bumped_major(major))

exact_range(major, minor, patch) ==
    IF minor # None
    THEN IF patch # None
         THEN Range(NewVersion(major, minor[1], patch[1]),
                    version_with_bumped_patch(major, minor[1], patch[1]))
         ELSE Range(NewVersion(major, minor[1], 0),
                    version_with_bumped_minor(major, minor[1]))
    ELSE Range(NewVersion(major, 0, 0), version_with_bumped_major(major))

greater_range(major, minor, patch) ==
    LET end == NewVersion(U64_MAX, U64_MAX, U64_MAX)
    IN  IF minor # None
        THEN IF patch # None
             THEN Range(version_with_bumped_patch(major, minor[1], patch[1]), end)
             ELSE Range(version_with_bumped_minor(major, minor[1]), end)
        ELSE Range(version_with_bumped_major(major), end)

greater_or_equal_range(major, minor, patch) ==
    LET end == NewVersion(U64_MAX, U64_MAX, U64_MAX)
    IN  IF minor # None
        THEN IF patch # None
             THEN Range(NewVersion(major, minor[1], patch[1]), end)
             ELSE Range(NewVersion(major, minor[1], 0), end)
        ELSE Range(NewVersion(major, 0, 0), end)

less_range_major_only(major, minor, patch) ==
    Range(NewVersion(0, 0, 0), NewVersion(major, 0, 0))

less_range(major, minor, patch) ==
    LET start == NewVersion(0, 0, 0)
    IN  IF minor # None
        THEN IF patch # None
             THEN Range(start, NewVersion(major, minor[1], patch[1]))
             ELSE Range(start, NewVersion(major, minor[1], 0))
        ELSE Range(start, NewVersion(major, 0, 0))

less_or_equal_range(major, minor, patch) ==
    LET start == NewVersion(0, 0, 0)
    IN  IF minor # None
        THEN IF patch # None
             THEN Range(start, version_with_bumped_patch(major, minor[1], patch[1]))
             ELSE Range(start, version_with_bumped_minor(major, minor[1]))
        ELSE Range(start, version_with_bumped_major(major))

tilde_range_bump_patch(major, minor, patch) ==
    IF minor # None
    THEN IF patch # None
         THEN Range(NewVersion(major, minor[1], patch[1]),
                    version_with_bumped_patch(major, minor[1], patch[1]))
         ELSE Range(NewVersion(major, minor[1], 0),
                    version_with_bumped_minor(major, minor[1]))
    ELSE Range(NewVersion(major, 0, 0), version_with_bumped_major(major))

tilde_range(major, minor, patch) ==
    IF minor # None
    THEN IF patch # None
         THEN Range(NewVersion(major, minor[1], patch[1]),
                    version_with_bumped_minor(major, minor[1]))
         ELSE Range(NewVersion(major, minor[1], 0),
                    version_with_bumped_minor(major, minor[1]))
    ELSE Range(NewVersion(major, 0, 0), version_with_bumped_major(major))

wildcard_range_whole_major(major, minor, patch) ==
    Range(NewVersion(major, 0, 0), version_with_bumped_major(major))

wildcard_range(major, minor, patch) ==
    IF minor # None
    THEN Range(NewVersion(major, minor[1], 0),
               version_with_bumped_minor(major, minor[1]))
    ELSE Range(NewVersion(major, 0, 0), version_with_bumped_major(major))

comparator_range(c) ==
    CASE c.op = "Exact"     -> exact_range(c.major, c.minor, c.patch)
      [] c.op = "Greater"   -> greater_range(c.major, c.minor, c.patch)
      [] c.op = "GreaterEq" -> greater_or_equal_range(c.major, c.minor, c.patch)
      [] c.op = "Less"      -> less_range(c.major, c.minor, c.patch)
      [] c.op = "LessEq"    -> less_or_equal_range(c.major, c.minor, c.patch)
      [] c.op = "Tilde"     -> tilde_range(c.major, c.minor, c.patch)
      [] c.op = "Caret"     -> caret_range(c.major, c.minor, c.patch)
      [] c.op = "Wildcard"  -> wildcard_range(c.major, c.minor, c.patch)


(***************************************************************************)
(* Version::comparator_ranges: the intersection over all comparators.      *)
(* fold_ranges is the body of its for loop, from comparator i on.          *)
(***************************************************************************)
RECURSIVE fold_ranges_end_flipped(_, _, _, _)
fold_ranges_end_flipped(comparators, i, start, end) ==
    IF i > Len(comparators)
    THEN Range(start, end)
    ELSE LET op == comparators[i].op
             range == comparator_range(comparators[i])
         IN  IF Panicked(range)
             THEN Range(Panic, Panic)
             ELSE IF op \in {"Exact", "Tilde", "Caret", "Wildcard"}
             THEN fold_ranges_end_flipped(comparators, i + 1,
                      IF VersionLt(start, range.start) THEN range.start ELSE start,
                      IF VersionLt(end, range.end) THEN range.end ELSE end)
             ELSE IF op \in {"Greater", "GreaterEq"}
             THEN fold_ranges_end_flipped(comparators, i + 1,
                      IF VersionLt(start, range.start) THEN range.start ELSE start,
                      end)
             ELSE fold_ranges_end_flipped(comparators, i + 1,
                      start,
                      IF VersionLt(end, range.end) THEN range.end ELSE end)

RECURSIVE fold_ranges(_, _, _, _)
fold_ranges(comparators, i, start, end) ==
    IF i > Len(comparators)
    THEN Range(start, end)
    ELSE LET op == comparators[i].op
             range == comparator_range(comparators[i])
         IN  IF Panicked(range)
             THEN Range(Panic, Panic)
             ELSE IF op \in {"Exact", "Tilde", "Caret", "Wildcard"}
             THEN fold_ranges(comparators, i + 1,
                      IF VersionLt(start, range.start) THEN range.start ELSE start,
                      IF VersionLt(range.end, end) THEN range.end ELSE end)
             ELSE IF op \in {"Greater", "GreaterEq"}
             THEN fold_ranges(comparators, i + 1,
                      IF VersionLt(start, range.start) THEN range.start ELSE start,
                      end)
             ELSE fold_ranges(comparators, i + 1,
                      start,
                      IF VersionLt(range.end, end) THEN range.end ELSE end)

comparator_ranges(req) ==
    fold_ranges(req, 1, NewVersion(0, 0, 0), NewVersion(U64_MAX, U64_MAX, U64_MAX))

\* The log::error! of comparator_ranges fires exactly when end < start.
invalid_range_logged(req) ==
    LET range == comparator_ranges(req)
    IN  ~Panicked(range) /\ VersionLt(range.end, range.start)

\* impl PartialEq for Version: self.req == other.req
eq(self, other) == self = other

\* impl PartialOrd for Version
partial_cmp(self, other) ==
    LET a == comparator_ranges(self)
        b == comparator_ranges(other)
    IN  IF Panicked(a) \/ Panicked(b) THEN Panic ELSE range_compare(a, b)

(***************************************************************************)
(* Version::change_type, on the first comparator of each requirement       *)
(***************************************************************************)
change_type_semver_only(self, other) ==
    LET s == self[1]
        o == other[1]
    IN  IF s.major # o.major
        THEN "Major"
        ELSE IF s.minor # None /\ o.minor # None
        THEN IF s.minor[1] # o.minor[1]
             THEN "Minor"
             ELSE IF s.patch # None /\ o.patch # None
             THEN IF s.patch[1] # o.patch[1] THEN "Patch" ELSE "None"
             ELSE "Unknown"
        ELSE "Unknown"

change_type_missing_as_zero(self, other) ==
    IF self = <<>> \/ other = <<>>
    THEN "Panic"
    ELSE LET s == self[1]
             o == other[1]
             minor(c) == IF c.minor = None THEN 0 ELSE c.minor[1]
             patch(c) == IF c.patch = None THEN 0 ELSE c.patch[1]
         IN  IF s.major # o.major
             THEN "Major"
             ELSE IF minor(s) # minor(o)
             THEN IF s.major > 0 THEN "Minor" ELSE "Major"
             ELSE IF patch(s) # patch(o)
             THEN IF s.major > 0
                  THEN "Patch"
                  ELSE IF minor(s) > 0 THEN "Minor" ELSE "Major"
             ELSE IF s.minor = o.minor /\ s.patch = o.patch THEN "None" ELSE "Unknown"

\* first().expect("Index should be valid") panics on an empty comparator list.
change_type(self, other) ==
    IF self = <<>> \/ other = <<>>
    THEN "Panic"
    ELSE LET s == self[1]
             o == other[1]
         IN  IF s.major # o.major
             THEN "Major"
             ELSE IF s.minor # None /\ o.minor # None
             THEN IF s.minor[1] # o.minor[1]
                  THEN IF s.major > 0 THEN "Minor" ELSE "Major"
                  ELSE IF s.patch # None /\ o.patch # None
                  THEN IF s.patch[1] # o.patch[1]
                       THEN IF s.major > 0
                            THEN "Patch"
                            ELSE IF s.minor[1] > 0 THEN "Minor" ELSE "Major"
                       ELSE "None"
                  ELSE "Unknown"
             ELSE "Unknown"

(***************************************************************************)
(* The comparators the model enumerates                                    *)
(***************************************************************************)
Comparator(op, major, minor, patch) ==
    [op |-> op, major |-> major, minor |-> minor, patch |-> patch, pre |-> ""]

\* Every comparator the parser can produce over the components in C: a patch
\* is only ever given after a minor, and a wildcard comparator has no patch.
ComparatorsOver(C) ==
    {Comparator(op, i, None, None) : op \in Ops, i \in C}
    \cup {Comparator(op, i, Some(j), None) : op \in Ops, i \in C, j \in C}
    \cup {Comparator(op, i, Some(j), Some(k)) :
              op \in Ops \ {"Wildcard"}, i \in C, j \in C, k \in C}


\* Single-comparator requirements at every precision, overflow included.
SingleReqs == {<<c>> : c \in ComparatorsOver((0..MaxComponent) \cup {U64_MAX})}

\* Comparators of precision I and I.J, for requirements of several comparators.
ShortComparators ==
    {c \in ComparatorsOver(0..MaxComponent) : c.patch = None}

MajorComparators ==
    {c \in ComparatorsOver(0..MaxComponent) : c.minor = None}

\* `<lower bound>, <upper bound>` requirements such as ">=1, <2": valid,
\* empty and inverted intervals all occur among them.
BoundedReqs ==
    {<<lo, hi>> : lo \in {c \in MajorComparators : c.op \in {"Greater", "GreaterEq"}},
                  hi \in {c \in MajorComparators : c.op \in {"Less", "LessEq"}}}

\* The requirements the specification's scenarios name.
ReqOverlapLow == <<Comparator("GreaterEq", 1, Some(2), Some(3)),
                   Comparator("Less", 3, None, None)>>         \* ">=1.2.3, <3"
ReqOverlapHigh == <<Comparator("GreaterEq", 2, Some(9), None),
                    Comparator("Less", 5, Some(9), Some(2))>>  \* ">=2.9, <5.9.2"
ReqIntersect == <<Comparator("GreaterEq", 1, Some(2), Some(3)),
                  Comparator("Less", 3, None, None),
                  Comparator("GreaterEq", 1, Some(4), Some(6)),
                  Comparator("Less", 1, Some(4), Some(7))>>    \* ">=1.2.3, <3, >=1.4.6, <1.4.7"
ReqExact146 == <<Comparator("Exact", 1, Some(4), Some(6))>>    \* "=1.4.6"
ScenarioReqs == {ReqOverlapLow, ReqOverlapHigh, ReqIntersect, ReqExact146}

RangeReqs ==
    SingleReqs
    \cup ScenarioReqs
    \cup {<<c1, c2>> : c1 \in ShortComparators, c2 \in ShortComparators}
    \cup {<<c1, c2, c3>> : c1 \in MajorComparators, c2 \in MajorComparators,
                           c3 \in MajorComparators}

CmpReqs ==
    {<<c>> : c \in ComparatorsOver(0..MaxComponent)} \cup BoundedReqs \cup ScenarioReqs

TransReqs == {<<c>> : c \in MajorComparators} \cup BoundedReqs


(***************************************************************************)
(* Rendering: impl Display for Change and for Version.  The emoji of the   *)
(* source are written by code point, its backticks as single quotes.       *)
(***************************************************************************)
ChangeDisplay(c) ==
    CASE c = "Major"   -> "U+2757"
      [] c = "Minor"   -> "U+1F4E6"
      [] c = "Patch"   -> "U+1F527"
      [] c = "None"    -> "U+1F610"
      [] c = "Unknown" -> "U+1F937"

OpDisplay(op) ==
    CASE op = "Exact"     -> "="
      [] op = "Greater"   -> ">"
      [] op = "GreaterEq" -> ">="
      [] op = "Less"      -> "<"
      [] op = "LessEq"    -> "<="
      [] op = "Tilde"     -> "~"
      [] op = "Caret"     -> "^"
      [] op = "Wildcard"  -> ""

\* The implied `^` is skipped; any other comparator prints as semver prints it.
fmt_comparator_version(c) ==
    IF c.op = "Caret"
    THEN ToString(c.major)
         \o (IF c.minor # None
             THEN "." \o ToString(c.minor[1])
                  \o (IF c.patch # None
                      THEN "." \o ToString(c.patch[1])
                           \o (IF c.pre # "" THEN "-" \o c.pre ELSE "")
                      ELSE "")
             ELSE "")
    ELSE OpDisplay(c.op) \o ToString(c.major)
         \o (IF c.minor # None
             THEN "." \o ToString(c.minor[1])
                  \o (IF c.patch # None
                      THEN "." \o ToString(c.patch[1])
                           \o (IF c.pre # "" THEN "-" \o c.pre ELSE "")
                      ELSE IF c.op = "Wildcard" THEN ".*" ELSE "")
             ELSE IF c.op = "Wildcard" THEN ".*" ELSE "")

RECURSIVE fmt_rest(_, _)
fmt_rest(comparators, i) ==
    IF i > Len(comparators)
    THEN ""
    ELSE ", " \o fmt_comparator_version(comparators[i]) \o fmt_rest(comparators, i + 1)

VersionDisplay(req) ==
    IF req = <<>>
    THEN "*"
    ELSE fmt_comparator_version(req[1]) \o fmt_rest(req, 2)

(***************************************************************************)
(* Version::new on the requirement strings the manifests of the model      *)
(* carry: VersionReq::parse, then Ok(Self { req }).                        *)
(***************************************************************************)
Ok(v) == [ok |-> TRUE, value |-> v, error |-> ""]
Err(e) == [ok |-> FALSE, value |-> <<>>, error |-> e]

\* VersionReq::parse, as a table over the strings of the model.
VersionReqParse(version_number) ==
    CASE version_number = "0" ->
             Ok(<<Comparator("Caret", 0, None, None)>>)
      [] version_number = "1" ->
             Ok(<<Comparator("Caret", 1, None, None)>>)
      [] version_number = "0.3" ->
             Ok(<<Comparator("Caret", 0, Some(3), None)>>)
      [] version_number = "0.3.1" ->
             Ok(<<Comparator("Caret", 0, Some(3), Some(1))>>)
      [] version_number = "0.3.2" ->
             Ok(<<Comparator("Caret", 0, Some(3), Some(2))>>)
      [] version_number = "^0.3.2" ->
             Ok(<<Comparator("Caret", 0, Some(3), Some(2))>>)
      [] version_number = "=0.3.2" ->
             Ok(<<Comparator("Exact", 0, Some(3), Some(2))>>)
      [] version_number = ">=0.3.1, <1" ->
             Ok(<<Comparator("GreaterEq", 0, Some(3), Some(1)),
                  Comparator("Less", 1, None, None)>>)
      [] version_number = "*" ->
             Ok(<<>>)
      [] version_number = ">=1.2, <1.5" ->
             Ok(<<Comparator("GreaterEq", 1, Some(2), None),
                  Comparator("Less", 1, Some(5), None)>>)
      [] version_number = "1..3" ->
             Err("unexpected character '.' while parsing minor version number")
      [] version_number = "1." ->
             Err("unexpected end of input while parsing minor version number")
      [] version_number = ".2" ->
             Err("unexpected character '.' while parsing major version number")
      [] OTHER ->   \* "xyz"
             Err("unexpected character after wildcard in version req")

\* Version::new with the check of the comparator count that is commented out.
VersionNew_single_only(version_number) ==
    LET req == VersionReqParse(version_number)
    IN  IF req.ok /\ Len(req.value) # 1
        THEN Err("Multiple version requirement comparison is not yet implemented")
        ELSE req

\* Version::new: the parse error as a String, or Ok(Self { req }).
VersionNew(version_number) == VersionReqParse(version_number)

(***************************************************************************)
(* cargo_toml: CargoDependencyValue, File                                  *)
(***************************************************************************)
Simple(version) ==
    [kind |-> "Simple", version |-> version, git |-> "", package |-> None]
Detailed(version, package) ==
    [kind |-> "Detailed", version |-> version, git |-> "", package |-> package]
Git(git, package) ==
    [kind |-> "Git", version |-> "", git |-> git, package |-> package]

\* The manifest keys of the model, in the order a BTreeMap iterates them.
KeyOrder == <<"ahash", "serde">>
KeyIndex(k) == CHOOSE i \in 1..Len(KeyOrder) : KeyOrder[i] = k
FirstKey_reversed(keys) == CHOOSE k \in keys : \A other \in keys : KeyIndex(k) >= KeyIndex(other)
FirstKey(keys) == CHOOSE k \in keys : \A other \in keys : KeyIndex(k) <= KeyIndex(other)

\* The tables in the order print_changes_versus_previous_version diffs them,
\* and the label it passes for each.
TableField == <<"dependencies", "dev_dependencies", "build_dependencies",
                "workspace_dependencies">>
TableLabel == <<None,
                Some("(U+1F5A5 dev-dependencies)"),
                Some("(U+1F9F1 build-dependencies)"),
                Some("(U+1F5C4 workspace-dependencies)")>>
NoChanges == "U+1F9F9 No changes detected."

EmptyMap == [k \in {} |-> Simple("0")]
IsSome(o) == Len(o) = 1
\* get_optional_dependency_changes_versus_previous: a missing table is diffed
\* as an empty one when the other side has it.
MapOf(file, t) ==
    IF IsSome(file[TableField[t]]) THEN file[TableField[t]][1] ELSE EmptyMap

get_version_git_as_one(value) ==
    IF value.kind = "Git"
    THEN VersionNew("1")
    ELSE LET v == VersionNew(value.version)
         IN  IF v.ok THEN v ELSE Err("Unexpected semver " \o value.version)

get_version(value) ==
    CASE value.kind = "Simple" ->
             LET v == VersionNew(value.version)
             IN  IF v.ok THEN v
                 ELSE Err("Unexpected semver " \o value.version
                          \o " found while computing dependency changes: " \o v.error)
      [] value.kind = "Detailed" ->
             LET v == VersionNew(value.version)
             IN  IF v.ok THEN v
                 ELSE Err("Unexpected semver version '" \o value.version
                          \o "' found while computing dependency changes")
      [] value.kind = "Git" -> VersionNew("0")

git_warning_silent(value) == <<>>

\* The log::warn! of get_version and of the removed-dependencies loop.
git_warning(value) ==
    IF value.kind = "Git"
    THEN <<"Git dependency '" \o value.git \o "' found, but version change detection "
           \o "for git dependencies is not currently supported">>
    ELSE <<>>

package_name_of_key_only(name, value) == name

package_name_of(name, value) ==
    IF value.kind = "Simple" THEN name
    ELSE IF value.package # None THEN value.package[1]
    ELSE name

change_verb_swapped(ordering) ==
    CASE ordering = Some("Greater") -> "drop"
      [] ordering = Some("Less")    -> "bump"
      [] ordering = Some("Equal")   -> ""
      [] ordering = None            -> "change"

\* The arms of `match current_version.partial_cmp(&previous_version)`.
change_verb(ordering) ==
    CASE ordering = Some("Greater") -> "bump"
      [] ordering = Some("Less")    -> "drop"
      [] ordering = Some("Equal")   -> ""
      [] ordering = None            -> "change"

label_part_dropped(label) == ""
label_part(label) == IF label # None THEN " " \o label[1] ELSE ""

\* The lines one writeln! of a bump, drop or change appends to result (the
\* labelled change format ends in a newline of its own).
change_lines(change, verb, package_name, label, previous_version, current_version) ==
    IF verb = ""
    THEN <<>>
    ELSE <<ChangeDisplay(change) \o " " \o verb \o " " \o package_name \o label_part(label)
           \o " from " \o VersionDisplay(previous_version)
           \o " to " \o VersionDisplay(current_version)>>
         \o (IF verb = "change" /\ label # None THEN <<"">> ELSE <<>>)

add_lines(package_name, label, current_version) ==
    <<"U+2728 add " \o package_name \o label_part(label)
      \o " " \o VersionDisplay(current_version)>>

remove_lines(package_name, label, version) ==
    <<"U+1F5D1 remove " \o package_name \o label_part(label)
      \o " " \o VersionDisplay(version)>>

previous_keys_remove_all(previous_keys, name) == {}
previous_keys_remove_forgotten(previous_keys, name) == previous_keys

\* previous_keys.remove(name)
previous_keys_remove(previous_keys, name) == previous_keys \ {name}

StepOk(lines, verb, warns, keys) ==
    [status |-> "ok", lines |-> lines, verb |-> verb, warns |-> warns,
     error |-> "", previous_keys |-> keys]
StepErr(error, warns, keys) ==
    [status |-> "error", lines |-> <<>>, verb |-> "", warns |-> warns,
     error |-> error, previous_keys |-> keys]
StepPanic(warns, keys) ==
    [status |-> "panicked", lines |-> <<>>, verb |-> "", warns |-> warns,
     error |-> "", previous_keys |-> keys]

\* One iteration of the for loop of get_changes_from_current_dependencies.
current_step(current_dependencies, previous_dependencies, label, prev_keys, name) ==
    LET current_value == current_dependencies[name]
        current_version == get_version(current_value)
        warn1 == git_warning(current_value)
    IN  IF ~current_version.ok
        THEN StepErr(current_version.error, warn1, prev_keys)
        ELSE
        LET package_name == package_name_of(name, current_value)
        IN  IF name \in DOMAIN previous_dependencies
            THEN LET previous_value == previous_dependencies[name]
                     previous_version == get_version(previous_value)
                     warn2 == warn1 \o git_warning(previous_value)
                 IN  IF ~previous_version.ok
                     THEN StepErr(previous_version.error, warn2, prev_keys)
                     ELSE
                     LET keys == previous_keys_remove(prev_keys, name)
                         change == change_type(current_version.value, previous_version.value)
                         ordering == IF change = "Panic" THEN Panic
                                     ELSE partial_cmp(current_version.value,
                                                      previous_version.value)
                     IN  IF \/ change = "Panic"
                            \/ Panicked(comparator_ranges(current_version.value))
                            \/ Panicked(comparator_ranges(previous_version.value))
                         THEN StepPanic(warn2, keys)
                         ELSE StepOk(change_lines(change, change_verb(ordering),
                                                  package_name, label,
                                                  previous_version.value,
                                                  current_version.value),
                                     change_verb(ordering), warn2, keys)
            ELSE StepOk(add_lines(package_name, label, current_version.value),
                        "add", warn1, prev_keys)

\* One iteration of the removed-dependencies loop of
\* get_dependency_changes_versus_previous: new(..).unwrap() and .expect(..)
\* panic on a string that does not parse.
removed_step(previous_dependencies, label, name) ==
    LET value == previous_dependencies[name]
        version == IF value.kind = "Git" THEN VersionNew("0") ELSE VersionNew(value.version)
        warns == git_warning(value)
    IN  IF ~version.ok
        THEN StepPanic(warns, {})
        ELSE StepOk(remove_lines(package_name_of(name, value), label, version.value),
                    "remove", warns, {})

(***************************************************************************)
(* State                                                                   *)
(***************************************************************************)
VARIABLES
    reqs,           \* the requirements under comparison (Version.req.comparators)
    ranges,         \* comparator_ranges of each requirement, once computed
    logged,         \* per requirement: comparator_ranges logged an invalid range
    ords,           \* ords[i][j]: range_compare(ranges[i], ranges[j])
    change,         \* change_type(reqs[1], reqs[2])
    pc,             \* position within partial_cmp / change_type
    version_numbers,\* the strings handed to Version::new
    made,           \* what Version::new returned for each of them
    current,        \* self: the File of the working tree
    previous,       \* the File of the earlier snapshot
    table,          \* the table being diffed: an index into TableField
    dpc,            \* position within print_changes_versus_previous_version
    cursor,         \* the keys of the current table the for loop has passed
    previous_keys,  \* the BTreeSet previous_keys
    result,         \* the String result, as its newline-terminated lines
    records,        \* history: one entry per writeln!, in order
    warnings,       \* the log::warn! messages so far
    outcome         \* what print_changes_versus_previous_version returned

semver_vars == <<reqs, ranges, logged, ords, change, pc, version_numbers, made>>
diff_vars == <<current, previous, table, dpc, cursor, previous_keys, result, records,
               warnings, outcome>>
vars == <<reqs, ranges, logged, ords, change, pc, version_numbers, made, current, previous,
          table, dpc, cursor, previous_keys, result, records, warnings, outcome>>

NoFile == [dependencies |-> None, dev_dependencies |-> None,
           build_dependencies |-> None, workspace_dependencies |-> None]

\* No diff is running.
DiffIdle ==
    /\ current = NoFile
    /\ previous = NoFile
    /\ table = 0
    /\ dpc = "idle"
    /\ cursor = {}
    /\ previous_keys = {}
    /\ result = <<>>
    /\ records = <<>>
    /\ warnings = <<>>
    /\ outcome = None

\* No comparison is running.
SemverIdle ==
    /\ reqs = <<>>
    /\ ranges = <<>>
    /\ logged = <<>>
    /\ ords = <<>>
    /\ change = "Pending"
    /\ pc = "idle"
    /\ version_numbers = <<>>
    /\ made = <<>>

InitSemver(inputs) ==
    /\ reqs \in inputs
    /\ ranges = <<>>
    /\ logged = <<>>
    /\ ords = <<>>
    /\ change = "Pending"
    /\ pc = "start"
    /\ version_numbers = <<>>
    /\ made = <<>>
    /\ DiffIdle

\* comparator_ranges on every requirement (partial_cmp calls it on self and
\* on other before range_compare); a bump that overflows panics.
ComparatorRanges ==
    /\ pc = "start"
    /\ ranges' = [i \in 1..Len(reqs) |-> comparator_ranges(reqs[i])]
    /\ logged' = [i \in 1..Len(reqs) |-> invalid_range_logged(reqs[i])]
    /\ pc' = IF \E i \in 1..Len(reqs) : Panicked(comparator_ranges(reqs[i]))
             THEN "panicked"
             ELSE "ranged"
    /\ UNCHANGED <<reqs, ords, change, version_numbers, made>>
    /\ UNCHANGED diff_vars

\* range_compare on every ordered pair of the computed ranges.
RangeCompare ==
    /\ pc = "ranged"
    /\ Len(reqs) >= 2
    /\ ords' = [i \in 1..Len(reqs) |->
                   [j \in 1..Len(reqs) |-> range_compare(ranges[i], ranges[j])]]
    /\ pc' = "compared"
    /\ UNCHANGED <<reqs, ranges, logged, change, version_numbers, made>>
    /\ UNCHANGED diff_vars

\* change_type(reqs[1], reqs[2]).
ChangeType ==
    /\ pc = "compared"
    /\ Len(reqs) = 2
    /\ change' = change_type(reqs[1], reqs[2])
    /\ pc' = "classified"
    /\ UNCHANGED <<reqs, ranges, logged, ords, version_numbers, made>>
    /\ UNCHANGED diff_vars

\* The requirement strings handed to Version::new: the ones the manifests of
\* the model carry and the malformed ones.
VersionNumbers ==
    {"0", "1", "0.3", "0.3.1", "0.3.2", "^0.3.2", "=0.3.2", ">=0.3.1, <1", "*",
     ">=1.2, <1.5", "1..3", "1.", ".2", "xyz"}

\* Version::new on each string.
New ==
    /\ pc = "new"
    /\ made' = [i \in 1..Len(version_numbers) |-> VersionNew(version_numbers[i])]
    /\ pc' = "made"
    /\ UNCHANGED <<reqs, ranges, logged, ords, change, version_numbers>>
    /\ UNCHANGED diff_vars

\* Two strings, as get_version is run on a current and a previous entry.
InitNew ==
    /\ version_numbers \in {<<a, b>> : a \in VersionNumbers, b \in VersionNumbers}
    /\ made = <<>>
    /\ reqs = <<>>
    /\ ranges = <<>>
    /\ logged = <<>>
    /\ ords = <<>>
    /\ change = "Pending"
    /\ pc = "new"
    /\ DiffIdle
NextNew == New
SpecNew == InitNew /\ [][NextNew]_vars

\* One requirement: its interval.
InitRange == InitSemver({<<r>> : r \in RangeReqs})
NextRange == ComparatorRanges
SpecRange == InitRange /\ [][NextRange]_vars

\* Two requirements: partial_cmp and change_type.
InitCmp == InitSemver({<<a, b>> : a \in CmpReqs, b \in CmpReqs})
NextCmp == ComparatorRanges \/ RangeCompare \/ ChangeType
SpecCmp == InitCmp /\ [][NextCmp]_vars

\* Three requirements: the order's transitivity.
InitTrans == InitSemver({<<a, b, c>> : a \in TransReqs, b \in TransReqs, c \in TransReqs})
NextTrans == ComparatorRanges \/ RangeCompare
SpecTrans == InitTrans /\ [][NextTrans]_vars

(***************************************************************************)
(* The diff: File::print_changes_versus_previous_version                   *)
(***************************************************************************)
\* The values a manifest of the model gives the key "ahash" ...
AhashValues ==
    {Simple("0.3.1"), Simple("0.3.2"), Simple("^0.3.2"), Simple("=0.3.2"),
     Simple("0.3"), Simple(">=0.3.1, <1"), Simple("1..3"),
     Detailed("0.3.2", Some("getrandom")),
     Git("https://example.com/a.git", None),
     Git("https://example.com/b.git", None)}
\* ... and the key "serde".
SerdeValues ==
    {Simple("1"), Simple("1..3"), Simple("*"), Detailed("0.3.2", Some("getrandom"))}

Maps ==
    {EmptyMap}
    \cup {[k \in {"ahash"} |-> a] : a \in AhashValues}
    \cup {[k \in {"serde"} |-> s] : s \in SerdeValues}
    \cup {[k \in {"ahash", "serde"} |-> IF k = "ahash" THEN a ELSE s] :
              a \in AhashValues, s \in SerdeValues}

OptionalMaps == {None} \cup {Some(m) : m \in Maps}

\* What each table other than the one under study holds: nothing, or one
\* dependency only the current manifest has.
Fills == {<<None, None>>, <<Some([k \in {"serde"} |-> Simple("1")]), None>>}

\* The tables that take every pair of maps in turn: the unlabelled one and a
\* labelled one.
StudiedTables == {t \in 1..4 : TableField[t] \in {"dependencies", "build_dependencies"}}

InitDiff ==
    /\ \E t \in StudiedTables, cur \in OptionalMaps, prev \in OptionalMaps, fill \in Fills :
          /\ current = [f \in {TableField[i] : i \in 1..4} |->
                           IF f = TableField[t] THEN cur ELSE fill[1]]
          /\ previous = [f \in {TableField[i] : i \in 1..4} |->
                            IF f = TableField[t] THEN prev ELSE fill[2]]
    /\ table = 1
    /\ dpc = "table"
    /\ cursor = {}
    /\ previous_keys = {}
    /\ result = <<>>
    /\ records = <<>>
    /\ warnings = <<>>
    /\ outcome = None
    /\ SemverIdle

\* Where control goes once `left` keys of current and `removed` keys of
\* previous remain to be handled in table t.
NextTable(t) == IF t = 4 THEN 5 ELSE t + 1
NextPc(t, left, removed) ==
    IF left # {} THEN "current"
    ELSE IF removed # {} THEN "removed"
    ELSE IF t = 4 THEN "finish" ELSE "table"
NextTableOf(t, left, removed) ==
    IF left # {} \/ removed # {} THEN t ELSE NextTable(t)

\* get_optional_dependency_changes_versus_previous for the next table, up to
\* the first loop iteration of get_dependency_changes_versus_previous.
StartTable ==
    /\ dpc = "table"
    /\ LET both_none == ~IsSome(current[TableField[table]])
                        /\ ~IsSome(previous[TableField[table]])
           left == IF both_none THEN {} ELSE DOMAIN MapOf(current, table)
           keys == IF both_none THEN {} ELSE DOMAIN MapOf(previous, table)
       IN  /\ previous_keys' = keys
           /\ cursor' = {}
           /\ dpc' = NextPc(table, left, keys)
           /\ table' = NextTableOf(table, left, keys)
    /\ UNCHANGED <<current, previous, result, records, warnings, outcome>>
    /\ UNCHANGED semver_vars

\* What one writeln! leaves in the history.
Record(verb, t, name, line) == [verb |-> verb, table |-> t, key |-> name, line |-> line]
RecordsOf(step, t, name, line) ==
    IF step.lines = <<>> THEN <<>> ELSE <<Record(step.verb, t, name, line)>>

\* One iteration of the loop over current_dependencies.
ProcessCurrentKey ==
    /\ dpc = "current"
    /\ LET cur == MapOf(current, table)
           name == FirstKey(DOMAIN cur \ cursor)
           step == current_step(cur, MapOf(previous, table), TableLabel[table],
                                previous_keys, name)
           left == DOMAIN cur \ (cursor \cup {name})
       IN  /\ warnings' = warnings \o step.warns
           /\ IF step.status = "ok"
              THEN /\ result' = result \o step.lines
                   /\ records' = records \o RecordsOf(step, table, name, Len(result) + 1)
                   /\ previous_keys' = IF left # {} \/ step.previous_keys # {}
                                       THEN step.previous_keys ELSE {}
                   /\ cursor' = IF left # {} \/ step.previous_keys # {}
                                THEN cursor \cup {name} ELSE {}
                   /\ dpc' = NextPc(table, left, step.previous_keys)
                   /\ table' = NextTableOf(table, left, step.previous_keys)
                   /\ outcome' = outcome
              ELSE /\ dpc' = step.status
                   /\ outcome' = IF step.status = "error" THEN Some(Err(step.error))
                                 ELSE outcome
                   /\ UNCHANGED <<result, records, previous_keys, cursor, table>>
    /\ UNCHANGED <<current, previous>>
    /\ UNCHANGED semver_vars

\* One iteration of the loop over the keys left in previous_keys.
RemoveKey ==
    /\ dpc = "removed"
    /\ LET name == FirstKey(previous_keys)
           step == removed_step(MapOf(previous, table), TableLabel[table], name)
           keys == previous_keys \ {name}
       IN  /\ warnings' = warnings \o step.warns
           /\ IF step.status = "ok"
              THEN /\ result' = result \o step.lines
                   /\ records' = records \o RecordsOf(step, table, name, Len(result) + 1)
                   /\ previous_keys' = keys
                   /\ cursor' = IF keys # {} THEN cursor ELSE {}
                   /\ dpc' = NextPc(table, {}, keys)
                   /\ table' = NextTableOf(table, {}, keys)
              ELSE /\ dpc' = step.status
                   /\ UNCHANGED <<result, records, previous_keys, cursor, table>>
    /\ UNCHANGED <<current, previous, outcome>>
    /\ UNCHANGED semver_vars

\* The end of print_changes_versus_previous_version.
Finish ==
    /\ dpc = "finish"
    /\ outcome' = Some(Ok(IF result = <<>> THEN <<NoChanges>> ELSE result))
    /\ dpc' = "done"
    /\ UNCHANGED <<current, previous, table, cursor, previous_keys, result, records,
                   warnings>>
    /\ UNCHANGED semver_vars

Init == InitDiff
Next == StartTable \/ ProcessCurrentKey \/ RemoveKey \/ Finish
Spec == Init /\ [][Next]_vars

(***************************************************************************)
(* Properties of the range model and of the comparison                     *)
(***************************************************************************)
\* The three conditions the specification gives for `a` Less than `b`.
LessCondition(a, b) ==
    \/ VersionLe(a.end, b.start)
    \/ (VersionLt(a.start, b.start) /\ a.end = b.end)
    \/ (a.start = b.start /\ VersionLt(a.end, b.end))

SameBounds(a, b) == a.start = b.start /\ a.end = b.end

Compared == pc \in {"compared", "classified"}

\* The value of a comparator's version with missing components read as 0.
ValueOf(c) ==
    <<c.major,
      IF c.minor = None THEN 0 ELSE c.minor[1],
      IF c.patch = None THEN 0 ELSE c.patch[1]>>

\* The lowest component a comparator gives.
LowestGiven(c) ==
    IF c.patch # None THEN c.patch[1]
    ELSE IF c.minor # None THEN c.minor[1]
    ELSE c.major

\* ValueOf(c) with 1 added to its lowest given component and the lower ones 0.
BumpLowest(c) ==
    IF c.patch # None THEN <<c.major, c.minor[1], c.patch[1] + 1>>
    ELSE IF c.minor # None THEN <<c.major, c.minor[1] + 1, 0>>
    ELSE <<c.major + 1, 0, 0>>

CaretEnd(c) ==
    IF c.major > 0 THEN <<c.major + 1, 0, 0>>
    ELSE IF c.minor = None THEN <<1, 0, 0>>
    ELSE IF c.minor[1] > 0 THEN <<0, c.minor[1] + 1, 0>>
    ELSE IF c.patch # None THEN <<0, 0, c.patch[1] + 1>>
    ELSE <<0, 1, 0>>

CaretBumped(c) ==
    IF c.major > 0 THEN c.major
    ELSE IF c.minor = None THEN 0
    ELSE IF c.minor[1] > 0 THEN c.minor[1]
    ELSE IF c.patch # None THEN c.patch[1]
    ELSE 0

C4_CaretInterval ==
    (pc # "start" /\ Len(reqs) = 1 /\ Len(reqs[1]) = 1 /\ reqs[1][1].op = "Caret"
        /\ CaretBumped(reqs[1][1]) < U64_MAX)
    => /\ pc = "ranged"
       /\ ranges[1] = Range(ValueOf(reqs[1][1]), CaretEnd(reqs[1][1]))

\* ^0.0.1 has been mapped to [0.0.1, 0.0.2).
C4_Witness ==
    /\ pc = "ranged"
    /\ reqs = << <<Comparator("Caret", 0, Some(0), Some(1))>> >>
    /\ ranges[1] = Range(<<0, 0, 1>>, <<0, 0, 2>>)

\* C5: change_type is Major when the majors differ; otherwise, when both
\* minors are present and differ, Minor if major > 0 and Major if major = 0;
\* otherwise, when both patches are present and differ, Patch if major > 0,
\* Minor if major = 0 and minor > 0, Major if major = 0 and minor = 0.
C5_Classify ==
    pc = "classified" =>
        LET s == reqs[1][1]
            o == reqs[2][1]
            minors == s.minor # None /\ o.minor # None /\ s.minor # o.minor
            patches == s.patch # None /\ o.patch # None /\ s.patch # o.patch
        IN  IF s.major # o.major THEN change = "Major"
            ELSE IF minors THEN change = (IF s.major > 0 THEN "Minor" ELSE "Major")
            ELSE IF patches
                 THEN change = (IF s.major > 0 THEN "Patch"
                                ELSE IF s.minor[1] > 0 THEN "Minor"
                                ELSE "Major")
            ELSE TRUE

\* 0.1.0 against 0.1.1 has been classified Minor.
C5_Witness ==
    /\ pc = "classified"
    /\ reqs[1] = <<Comparator("Caret", 0, Some(1), Some(0))>>
    /\ reqs[2] = <<Comparator("Caret", 0, Some(1), Some(1))>>
    /\ change = "Minor"

\* C6: the interval of a requirement is the intersection of its comparators'
\* intervals: start is the greatest start among its Greater, GreaterEq,
\* Exact, Tilde, Caret and Wildcard comparators (0.0.0 if none), end is the
\* least end among its Less, LessEq, Exact, Tilde, Caret and Wildcard
\* comparators (MAX if none); ">=1.2.3, <3, >=1.4.6, <1.4.7" yields
\* [1.4.6, 1.4.7) and compares Equal to "=1.4.6".
LowerOps == {"Greater", "GreaterEq", "Exact", "Tilde", "Caret", "Wildcard"}
UpperOps == {"Less", "LessEq", "Exact", "Tilde", "Caret", "Wildcard"}

StartsOf(req) ==
    {comparator_range(req[i]).start : i \in {j \in 1..Len(req) : req[j].op \in LowerOps}}
    \cup {VersionMin}

EndsOf(req) ==
    {comparator_range(req[i]).end : i \in {j \in 1..Len(req) : req[j].op \in UpperOps}}
    \cup {VersionMax}

C7_Expected(c) ==
    CASE c.op = "Exact"     -> Range(ValueOf(c), BumpLowest(c))
      [] c.op = "Tilde"     -> Range(ValueOf(c), <<c.major, c.minor[1] + 1, 0>>)
      [] c.op = "Greater"   -> Range(BumpLowest(c), VersionMax)
      [] c.op = "GreaterEq" -> Range(ValueOf(c), VersionMax)
      [] c.op = "Less"      -> Range(VersionMin, ValueOf(c))
      [] c.op = "LessEq"    -> Range(VersionMin, BumpLowest(c))

C7_Bumped(c) ==
    CASE c.op \in {"Exact", "Greater", "LessEq"} -> LowestGiven(c)
      [] c.op = "Tilde" -> c.minor[1]
      [] OTHER -> 0

C7_Covers(c) ==
    \/ c.op \in {"Exact", "Greater", "GreaterEq", "Less", "LessEq"}
    \/ c.op = "Tilde" /\ c.patch # None

C7_OperatorIntervals ==
    (pc # "start" /\ Len(reqs) = 1 /\ Len(reqs[1]) = 1 /\ C7_Covers(reqs[1][1])
        /\ C7_Bumped(reqs[1][1]) < U64_MAX)
    => /\ pc = "ranged"
       /\ ranges[1] = C7_Expected(reqs[1][1])

\* ~1.0.1 has been mapped to [1.0.1, 1.1.0) and is a case of C7.
C7_Witness ==
    /\ pc = "ranged"
    /\ reqs = << <<Comparator("Tilde", 1, Some(0), Some(1))>> >>
    /\ ranges[1] = Range(<<1, 0, 1>>, <<1, 1, 0>>)

\* C8: Tilde at precision I.J or I, and Wildcard I.J.* or I.*, have the
\* interval of Exact at the same precision and compare Equal to it.
C8_SameAsExact ==
    (Compared /\ Len(reqs[1]) = 1 /\ reqs[1][1].patch = None
        /\ reqs[1][1].op \in {"Tilde", "Wildcard"}
        /\ reqs[2] = <<[reqs[1][1] EXCEPT !.op = "Exact"]>>)
    => /\ ranges[1] = ranges[2]
       /\ ords[1][2] = Some("Equal")
       /\ ords[2][1] = Some("Equal")

\* 1.0.* has been compared with =1.0.
C8_Witness ==
    /\ Compared
    /\ reqs[1] = <<Comparator("Wildcard", 1, Some(0), None)>>
    /\ reqs[2] = <<Comparator("Exact", 1, Some(0), None)>>
    /\ ords[1][2] = Some("Equal")

\* C9: for every two requirements a and b, compare(a, b) = Less iff
\* compare(b, a) = Greater, and compare(a, b) = Equal iff compare(b, a) = Equal.
C9_Antisymmetry ==
    Compared =>
        /\ (ords[1][2] = Some("Less")) <=> (ords[2][1] = Some("Greater"))
        /\ (ords[1][2] = Some("Equal")) <=> (ords[2][1] = Some("Equal"))

\* C10: compare is transitive wherever all three pairs are comparable: if
\* compare(a, b) = Less, compare(b, c) = Less and compare(a, c) is not
\* Incomparable then compare(a, c) = Less, and likewise for Greater.
C10_Transitivity ==
    (pc = "compared" /\ Len(reqs) = 3) =>
        /\ (ords[1][2] = Some("Less") /\ ords[2][3] = Some("Less") /\ ords[1][3] # None)
               => ords[1][3] = Some("Less")
        /\ (ords[1][2] = Some("Greater") /\ ords[2][3] = Some("Greater") /\ ords[1][3] # None)
               => ords[1][3] = Some("Greater")

\* The first comparators of the two classified requirements.
Classified == pc = "classified"
SelfFirst == reqs[1][1]
OtherFirst == reqs[2][1]

\* The components both comparators give are equal.
SharedEqual(s, o) ==
    /\ s.major = o.major
    /\ (s.minor # None /\ o.minor # None) => s.minor = o.minor
    /\ (s.patch # None /\ o.patch # None) => s.patch = o.patch
SamePrecision(s, o) ==
    /\ (s.minor = None) <=> (o.minor = None)
    /\ (s.patch = None) <=> (o.patch = None)

\* C11: change_type is None whenever the two first comparators have the same
\* major, the same precision and equal components: for two equal I.J.K, two
\* equal I.J and two equal I requirements.
C11_NoneWhenEqual ==
    (Classified /\ SharedEqual(SelfFirst, OtherFirst) /\ SamePrecision(SelfFirst, OtherFirst))
        => change = "None"

\* C12: when the two first comparators have equal majors, the components both
\* give are equal, and one gives a minor or a patch the other lacks,
\* change_type is Unknown in both argument orders.
C12_UnknownOnMismatch ==
    (Classified /\ SharedEqual(SelfFirst, OtherFirst) /\ ~SamePrecision(SelfFirst, OtherFirst))
        => /\ change = "Unknown"
           /\ change_type(reqs[2], reqs[1]) = "Unknown"

\* 1.1.0 has been classified against 1.1.
C12_Witness ==
    /\ Classified
    /\ reqs[1] = <<Comparator("Caret", 1, Some(1), Some(0))>>
    /\ reqs[2] = <<Comparator("Caret", 1, Some(1), None)>>
    /\ change = "Unknown"

\* C13: when either requirement has more than one comparator, change_type is
\* Unknown, never Major, Minor, Patch or None.
C13_MultiComparatorUnknown ==
    (Classified /\ (Len(reqs[1]) > 1 \/ Len(reqs[2]) > 1)) => change = "Unknown"

\* C16: whenever the interval comparator_ranges builds has end <= start, be
\* it empty (end = start) or inverted (end < start), the call logs a
\* diagnostic and returns.
C16_InvalidRangeLogged ==
    \A i \in DOMAIN ranges :
        (~Panicked(ranges[i]) /\ VersionLe(ranges[i].end, ranges[i].start)) => logged[i]

\* An interval with end <= start.
InvalidInterval(range) == VersionLe(range.end, range.start)

\* C17: comparing any interval with one that has end <= start answers
\* Incomparable in both argument orders, never Less, Greater, Equal or a panic.
C17_InvalidIncomparable ==
    (Compared /\ (InvalidInterval(ranges[1]) \/ InvalidInterval(ranges[2])))
        => /\ ords[1][2] = None
           /\ ords[2][1] = None

\* Two single comparators of one operator and one precision.
Alike(s, o) == s.op = o.op /\ SamePrecision(s, o)

\* C25: two single-comparator requirements with the same operator and the
\* same precision whose versions differ, and whose bumps do not overflow, are
\* never Incomparable: the first is Less exactly when its version is
\* lexicographically smaller, and Greater otherwise.
C25_SameOperatorOrdered ==
    (Compared /\ Len(reqs[1]) = 1 /\ Len(reqs[2]) = 1
       /\ Alike(reqs[1][1], reqs[2][1])
       /\ ValueOf(reqs[1][1]) # ValueOf(reqs[2][1]))
        => ords[1][2] = (IF VersionLt(ValueOf(reqs[1][1]), ValueOf(reqs[2][1]))
                         THEN Some("Less")
                         ELSE Some("Greater"))

\* <1.0 has been compared with <1.1.
C25_Witness ==
    /\ Compared
    /\ reqs[1] = <<Comparator("Less", 1, Some(0), None)>>
    /\ reqs[2] = <<Comparator("Less", 1, Some(1), None)>>
    /\ ords[1][2] = Some("Less")
    /\ ords[2][1] = Some("Greater")

Made == pc = "made"
MultipleError == Err("Multiple version requirement comparison is not yet implemented")

C29_EqConsistentWithOrder ==
    Compared => (eq(reqs[1], reqs[2]) <=> ords[1][2] = Some("Equal"))

\* The operators whose interval takes its end, or for Greater its start, from
\* a bump of the lowest given component.
BumpsLowest(c) == c.op \in {"Exact", "Greater", "LessEq"}
BumpedBound(c, range) == IF c.op = "Greater" THEN range.start ELSE range.end
InU64(v) == \A i \in 1..3 : v[i] \in 0..U64_MAX

\* C30: a bump never wraps.  Bumping a component below the maximum gives that
\* component plus 1 with the lower components 0, so the bound it produces is
\* strictly greater than the version bumped; bumping a component equal to the
\* maximum panics.
C30_BumpNeverWraps ==
    (pc # "start" /\ Len(reqs) = 1 /\ Len(reqs[1]) = 1)
    => LET c == reqs[1][1]
       IN  /\ BumpsLowest(c) =>
                  IF LowestGiven(c) < U64_MAX
                  THEN /\ pc = "ranged"
                       /\ BumpedBound(c, ranges[1]) = BumpLowest(c)
                  ELSE pc = "panicked"
           /\ (pc = "ranged" /\ c.op \in {"Exact", "Greater", "LessEq", "Tilde", "Caret",
                                          "Wildcard"})
                  => /\ VersionLt(ValueOf(c), BumpedBound(c, ranges[1]))
                     /\ InU64(BumpedBound(c, ranges[1]))

\* The bump of the patch of =1.1.MAX has panicked.
C30_Witness ==
    /\ pc = "panicked"
    /\ reqs = << <<Comparator("Exact", 1, Some(1), Some(U64_MAX))>> >>

(***************************************************************************)
(* Properties of the diff                                                  *)
(***************************************************************************)
\* The diff returned its lines: no requirement failed to parse.
Returned == dpc = "done" /\ outcome = Some(Ok(IF result = <<>> THEN <<NoChanges>> ELSE result))

\* The records written for key `name` of table t, as indices into records.
RecordsFor(t, name) ==
    {i \in DOMAIN records : records[i].table = t /\ records[i].key = name}
LineOf(i) == result[records[i].line]

InBoth(t) == DOMAIN MapOf(current, t) \cap DOMAIN MapOf(previous, t)
OnlyCurrent(t) == DOMAIN MapOf(current, t) \ DOMAIN MapOf(previous, t)
OnlyPrevious(t) == DOMAIN MapOf(previous, t) \ DOMAIN MapOf(current, t)

\* The requirement a table of a manifest gives a key.
ReqOf(file, t, name) == get_version(MapOf(file, t)[name]).value
DisplayNameOf(file, t, name) == package_name_of(name, MapOf(file, t)[name])

\* The text after the verb of a bump, drop or change of key `name` of table t.
FromTo(t, name) ==
    " " \o DisplayNameOf(current, t, name) \o label_part(TableLabel[t])
    \o " from " \o VersionDisplay(ReqOf(previous, t, name))
    \o " to " \o VersionDisplay(ReqOf(current, t, name))

\* The one record of key `name` of table t has this verb and this line.
OneRecord(t, name, verb, line) ==
    /\ Cardinality(RecordsFor(t, name)) = 1
    /\ \A i \in RecordsFor(t, name) : records[i].verb = verb /\ LineOf(i) = line

\* C1: once the diff has returned, every key present in both the current and
\* the previous set of a table has, by the comparison of the current
\* requirement's interval with the previous one's, exactly one bump record
\* (Greater), exactly one drop record (Less), exactly one change record
\* (Incomparable) or no record (Equal), and the record's line reads
\* "<marker> <verb> <name>[ <label>] from PREV to CURR".
C1_BothRecords ==
    Returned =>
        \A t \in 1..4 : \A name \in InBoth(t) :
            LET cur == ReqOf(current, t, name)
                prev == ReqOf(previous, t, name)
                ordering == partial_cmp(cur, prev)
                marker == ChangeDisplay(change_type(cur, prev))
            IN  CASE ordering = Some("Greater") ->
                         OneRecord(t, name, "bump", marker \o " bump" \o FromTo(t, name))
                  [] ordering = Some("Less") ->
                         OneRecord(t, name, "drop", marker \o " drop" \o FromTo(t, name))
                  [] ordering = None ->
                         OneRecord(t, name, "change", marker \o " change" \o FromTo(t, name))
                  [] ordering = Some("Equal") ->
                         RecordsFor(t, name) = {}

\* The diff returned after a bump of ahash from 0.3.1 to 0.3.2 and an
\* unchanged serde in the same table.
C1_Witness ==
    /\ Returned
    /\ \E t \in 1..4 :
          /\ InBoth(t) = {"ahash", "serde"}
          /\ partial_cmp(ReqOf(current, t, "serde"), ReqOf(previous, t, "serde"))
                 = Some("Equal")
          /\ RecordsFor(t, "serde") = {}
          /\ \E i \in RecordsFor(t, "ahash") :
                /\ records[i].verb = "bump"
                /\ LineOf(i) = "U+1F4E6 bump ahash from 0.3.1 to 0.3.2"

\* C2: once the diff has returned, each table has exactly one add record for
\* every key in current but not in previous, reading "add <name>[ <label>]
\* CURR" with no from part, exactly one remove record for every key in
\* previous but not in current, reading "remove <name>[ <label>] PREV" with no
\* to part, and no add or remove record for a key present in both.
C2_AddRemoveRecords ==
    Returned =>
        \A t \in 1..4 :
            /\ \A name \in OnlyCurrent(t) :
                   OneRecord(t, name, "add",
                             "U+2728 add " \o DisplayNameOf(current, t, name)
                             \o label_part(TableLabel[t]) \o " "
                             \o VersionDisplay(ReqOf(current, t, name)))
            /\ \A name \in OnlyPrevious(t) :
                   OneRecord(t, name, "remove",
                             "U+1F5D1 remove " \o DisplayNameOf(previous, t, name)
                             \o label_part(TableLabel[t]) \o " "
                             \o VersionDisplay(ReqOf(previous, t, name)))
            /\ \A name \in InBoth(t) : \A i \in RecordsFor(t, name) :
                   records[i].verb \notin {"add", "remove"}

\* The diff returned after build-dependencies gained ahash, lost serde and
\* kept neither.
C2_Witness ==
    /\ Returned
    /\ \E t \in 1..4 :
          /\ TableLabel[t] = Some("(U+1F9F1 build-dependencies)")
          /\ OnlyCurrent(t) = {"ahash"}
          /\ OnlyPrevious(t) = {"serde"}
          /\ \E i \in RecordsFor(t, "ahash"), j \in RecordsFor(t, "serde") :
                /\ LineOf(i) = "U+2728 add ahash (U+1F9F1 build-dependencies) 0.3.2"
                /\ LineOf(j) = "U+1F5D1 remove serde (U+1F9F1 build-dependencies) 1"
                /\ i < j

\* C14: no bump, drop or change line of a returned diff carries the marker of
\* Change::None.
C14_NoneSuppressed ==
    Returned =>
        \A i \in DOMAIN records :
            records[i].verb \in {"bump", "drop", "change"}
                => LineOf(i) # ChangeDisplay("None") \o " " \o records[i].verb
                                \o FromTo(records[i].table, records[i].key)

\* The dependency values of either manifest whose requirement string does not
\* parse.
ValuesOf(file) == UNION {{MapOf(file, t)[k] : k \in DOMAIN MapOf(file, t)} : t \in 1..4}
Unparseable ==
    {v \in ValuesOf(current) \cup ValuesOf(previous) :
        v.kind # "Git" /\ ~VersionNew(v.version).ok}
Ended == dpc \in {"done", "error", "panicked"}

\* C15: when a requirement string of either manifest does not parse, the diff
\* ends by returning an error that names one such string: it neither panics
\* nor returns lines, the "no changes" line included.
C15_ParseErrorReturned ==
    (Ended /\ Unparseable # {}) =>
        /\ dpc = "error"
        /\ \E v \in Unparseable : outcome = Some(get_version(v))

\* The requirements Version::new builds from the manifests' strings.
Constructed ==
    {get_version(v).value : v \in {w \in ValuesOf(current) \cup ValuesOf(previous) :
                                      get_version(w).ok}}

\* C18: every requirement Version::new builds from a string of the diffed
\* manifests holds at least one comparator, so change_type and
\* comparator_ranges never get an empty comparator list.
C18_AtLeastOneComparator ==
    Ended => \A req \in Constructed : Len(req) >= 1

\* C19: within one table of a returned diff, the add, bump, drop and change
\* records come in the lexicographic order of their manifest keys, the remove
\* records come after all of them, in the lexicographic order of their keys,
\* and the lines are written in the records' order.
C19_OrderWithinTable ==
    Returned =>
        \A i \in DOMAIN records : \A j \in DOMAIN records :
            (i < j /\ records[i].table = records[j].table) =>
                /\ records[i].line < records[j].line
                /\ records[i].verb = "remove" => records[j].verb = "remove"
                /\ (records[i].verb = "remove" <=> records[j].verb = "remove")
                       => KeyIndex(records[i].key) < KeyIndex(records[j].key)

\* The diff returned with serde added before ahash removed in one table.
C19_Witness ==
    /\ Returned
    /\ Len(records) = 2
    /\ records[1].table = records[2].table
    /\ records[1].verb = "add" /\ records[1].key = "serde"
    /\ records[2].verb = "remove" /\ records[2].key = "ahash"
    /\ result = <<"U+2728 add serde 1", "U+1F5D1 remove ahash 0.3.1">>

\* The label text a line of each table carries after the dependency's name.
LabelText == <<"", " (U+1F5A5 dev-dependencies)", " (U+1F9F1 build-dependencies)",
               " (U+1F5C4 workspace-dependencies)">>
LabelledLine(i) ==
    LET t == records[i].table
        name == records[i].key
        verb == records[i].verb
    IN  CASE verb = "add" ->
                 "U+2728 add " \o DisplayNameOf(current, t, name) \o LabelText[t] \o " "
                 \o VersionDisplay(ReqOf(current, t, name))
          [] verb = "remove" ->
                 "U+1F5D1 remove " \o DisplayNameOf(previous, t, name) \o LabelText[t] \o " "
                 \o VersionDisplay(ReqOf(previous, t, name))
          [] OTHER ->
                 ChangeDisplay(change_type(ReqOf(current, t, name), ReqOf(previous, t, name)))
                 \o " " \o verb \o " " \o DisplayNameOf(current, t, name) \o LabelText[t]
                 \o " from " \o VersionDisplay(ReqOf(previous, t, name))
                 \o " to " \o VersionDisplay(ReqOf(current, t, name))

\* C20: the records of a returned diff come table by table in the order
\* dependencies, dev-dependencies, build-dependencies, workspace-dependencies;
\* every line of the last three carries its table's label after the name and
\* no line of the first carries a label.
C20_TableOrderAndLabels ==
    Returned =>
        /\ \A i \in DOMAIN records : \A j \in DOMAIN records :
               i < j => /\ records[i].table <= records[j].table
                        /\ records[i].line < records[j].line
        /\ \A i \in DOMAIN records : LineOf(i) = LabelledLine(i)

\* The diff returned one line per table, in the tables' order.
C20_Witness ==
    /\ Returned
    /\ result = <<"U+2728 add serde 1",
                  "U+2728 add serde (U+1F5A5 dev-dependencies) 1",
                  "U+1F4E6 bump ahash (U+1F9F1 build-dependencies) from 0.3.1 to 0.3.2",
                  "U+2728 add serde (U+1F5C4 workspace-dependencies) 1">>
    /\ [i \in 1..4 |-> records[i].table] = <<1, 2, 3, 4>>

\* C21: a returned diff is the single "no changes" line exactly when no record
\* was written for any table, and the diff of a manifest against an identical
\* one, all of whose requirement strings parse, ends by returning that line.
C21_SentinelWhenNoRecord ==
    /\ Returned => (outcome = Some(Ok(<<NoChanges>>)) <=> records = <<>>)
    /\ (Ended /\ current = previous /\ Unparseable = {})
           => (dpc = "done" /\ outcome = Some(Ok(<<NoChanges>>)))

\* C22: the lines of a returned diff that wrote a record are one line per
\* record, whatever the record's verb and table, and none of them is empty.
C22_OneLinePerRecord ==
    (Returned /\ records # <<>>) =>
        /\ Len(result) = Len(records)
        /\ \A i \in DOMAIN result : result[i] # ""

\* The package alias of a manifest entry when it has one, its key otherwise.
AliasOrKey(name, value) ==
    IF value.kind \in {"Detailed", "Git"} /\ value.package # None
    THEN value.package[1]
    ELSE name

\* The line of record i with `shown` as the dependency's name.
LineNaming(i, shown) ==
    LET t == records[i].table
        name == records[i].key
        verb == records[i].verb
    IN  CASE verb = "add" ->
                 "U+2728 add " \o shown \o LabelText[t] \o " "
                 \o VersionDisplay(ReqOf(current, t, name))
          [] verb = "remove" ->
                 "U+1F5D1 remove " \o shown \o LabelText[t] \o " "
                 \o VersionDisplay(ReqOf(previous, t, name))
          [] OTHER ->
                 ChangeDisplay(change_type(ReqOf(current, t, name), ReqOf(previous, t, name)))
                 \o " " \o verb \o " " \o shown \o LabelText[t]
                 \o " from " \o VersionDisplay(ReqOf(previous, t, name))
                 \o " to " \o VersionDisplay(ReqOf(current, t, name))

\* C23: the name in every line of a returned diff is the package alias of the
\* entry the line is rendered from (the previous entry for remove, the current
\* one for every other verb) when it has one and the manifest key otherwise;
\* entries are paired by key, so a key only current has and a key only
\* previous has yield an add and a remove even when their aliases agree.
C23_DisplayName ==
    Returned =>
        /\ \A i \in DOMAIN records :
               LET t == records[i].table
                   name == records[i].key
                   entry == IF records[i].verb = "remove"
                            THEN MapOf(previous, t)[name]
                            ELSE MapOf(current, t)[name]
               IN  LineOf(i) = LineNaming(i, AliasOrKey(name, entry))
        /\ \A t \in 1..4 : \A added \in OnlyCurrent(t) : \A removed \in OnlyPrevious(t) :
               AliasOrKey(added, MapOf(current, t)[added])
                   = AliasOrKey(removed, MapOf(previous, t)[removed])
               => /\ \E i \in RecordsFor(t, added) : records[i].verb = "add"
                  /\ \E j \in RecordsFor(t, removed) : records[j].verb = "remove"

\* getrandom moved from the key serde to the key ahash: one add, one remove.
C23_Witness ==
    /\ Returned
    /\ \E t \in 1..4 :
          /\ OnlyCurrent(t) = {"ahash"}
          /\ OnlyPrevious(t) = {"serde"}
          /\ InBoth(t) = {}
          /\ MapOf(current, t)["ahash"] = Detailed("0.3.2", Some("getrandom"))
          /\ MapOf(previous, t)["serde"] = Detailed("0.3.2", Some("getrandom"))
    /\ result = <<"U+2728 add getrandom 0.3.2", "U+1F5D1 remove getrandom 0.3.2">>

\* The git-flavoured entries of the two manifests, and the diagnostic of one.
GitEntries ==
    {e \in {"current", "previous"} \X (1..4) \X {KeyOrder[i] : i \in DOMAIN KeyOrder} :
        LET m == MapOf(IF e[1] = "current" THEN current ELSE previous, e[2])
        IN  e[3] \in DOMAIN m /\ m[e[3]].kind = "Git"}
EntryOf(e) == MapOf(IF e[1] = "current" THEN current ELSE previous, e[2])[e[3]]
GitDiagnostic(git) ==
    "Git dependency '" \o git \o "' found, but version change detection "
    \o "for git dependencies is not currently supported"

\* Every entry that is not git-flavoured parses to at least one comparator.
OthersWellFormed ==
    \A v \in ValuesOf(current) \cup ValuesOf(previous) :
        v.kind # "Git" => (VersionNew(v.version).ok /\ VersionNew(v.version).value # <<>>)

\* C24: every git-flavoured entry of either manifest is given the requirement
\* "0", a returned diff has logged exactly one diagnostic per such entry, and
\* a diff whose other entries are well formed returns.
C24_GitSentinel ==
    /\ \A e \in GitEntries :
           get_version(EntryOf(e)) = Ok(<<Comparator("Caret", 0, None, None)>>)
    /\ Returned =>
           /\ Len(warnings) = Cardinality(GitEntries)
           /\ \A e \in GitEntries :
                  Cardinality({i \in DOMAIN warnings :
                                  warnings[i] = GitDiagnostic(EntryOf(e).git)})
                      = Cardinality({f \in GitEntries : EntryOf(f).git = EntryOf(e).git})
    /\ (Ended /\ OthersWellFormed) => Returned

\* ahash is a git dependency in both manifests, at two locators: two
\* diagnostics and a returned diff.
C24_Witness ==
    /\ Returned
    /\ Cardinality(GitEntries) = 2
    /\ warnings = <<GitDiagnostic("https://example.com/a.git"),
                    GitDiagnostic("https://example.com/b.git")>>
    /\ \E t \in 1..4 : InBoth(t) = {"ahash"}

IsGit(file, t, name) == MapOf(file, t)[name].kind = "Git"

\* C26: in a returned diff a key that is a git dependency in both manifests
\* has no record, whatever the two locators; a git dependency only the
\* current manifest has is one add line and one only the previous manifest
\* has is one remove line, each showing the requirement 0.
C26_GitRecords ==
    Returned =>
        \A t \in 1..4 :
            /\ \A name \in InBoth(t) :
                   (IsGit(current, t, name) /\ IsGit(previous, t, name))
                       => RecordsFor(t, name) = {}
            /\ \A name \in OnlyCurrent(t) :
                   IsGit(current, t, name)
                       => OneRecord(t, name, "add",
                                    "U+2728 add " \o AliasOrKey(name, MapOf(current, t)[name])
                                    \o LabelText[t] \o " 0")
            /\ \A name \in OnlyPrevious(t) :
                   IsGit(previous, t, name)
                       => OneRecord(t, name, "remove",
                                    "U+1F5D1 remove "
                                    \o AliasOrKey(name, MapOf(previous, t)[name])
                                    \o LabelText[t] \o " 0")

\* ahash moved from one git locator to another and the diff found no change.
C26_Witness ==
    /\ Returned
    /\ \E t \in 1..4 :
          /\ InBoth(t) = {"ahash"}
          /\ MapOf(current, t)["ahash"] = Git("https://example.com/a.git", None)
          /\ MapOf(previous, t)["ahash"] = Git("https://example.com/b.git", None)
          /\ RecordsFor(t, "ahash") = {}
    /\ outcome = Some(Ok(<<NoChanges>>))

\* The keys of table t whose remove line has been written.
Removed(t) == {records[i].key : i \in {j \in DOMAIN records :
                                          records[j].table = t /\ records[j].verb = "remove"}}

\* C28: while the loop over the current keys of a table runs, previous_keys is
\* the previous key set minus the current keys already passed; once that loop
\* has ended it is previous minus current, less the keys whose remove line
\* has been written since; and no key of a table ever has two records.
C28_PreviousKeys ==
    /\ dpc = "current"
           => previous_keys = DOMAIN MapOf(previous, table) \ cursor
    /\ dpc = "removed"
           => /\ previous_keys \cup Removed(table) = OnlyPrevious(table)
              /\ previous_keys \cap Removed(table) = {}
    /\ \A t \in 1..4 : \A name \in DOMAIN MapOf(current, t) \cup DOMAIN MapOf(previous, t) :
           Cardinality(RecordsFor(t, name)) <= 1

\* ahash, in both manifests, has been passed and serde, in both, has not.
C28_Witness ==
    /\ dpc = "current"
    /\ InBoth(table) = {"ahash", "serde"}
    /\ cursor = {"ahash"}
    /\ previous_keys = {"serde"}

=============================================================================
